---- MODULE Spec2Model ----
(***************************************************************************)
(* The lazy operator DAG built by the Matrix facade of the DAPHNE Python   *)
(* API (src/api/python/daphne/operator/nodes/matrix.py).                   *)
(*                                                                         *)
(* The Python heap is modelled explicitly: node objects are numbered       *)
(* 1..heap.nobj, every object has an attribute dictionary (heap.dictOf),   *)
(* and the attributes live in heap.dicts.  Objects and dictionaries are    *)
(* kept apart because __setitem__ replaces self.__dict__ by the dictionary *)
(* of a freshly constructed node, so two objects can share one dictionary. *)
(* A deep copy gives every copy a __dict__ object of its own: heap.own     *)
(* names the __dict__ object an object holds (by the object constructed    *)
(* with it), heap.dictOf the attribute values and list objects it reaches, *)
(* and heap.keys how many of the attributes its __dict__ holds, since a    *)
(* copy can be handed a dictionary that is still being filled.  The order  *)
(* in which the attributes are assigned, and so copied, is that of         *)
(* OperationNode.__init__, which is not part of the file: it is an input   *)
(* of the deep copy, and heap.order holds it once a copy depends on it.    *)
(***************************************************************************)
EXTENDS Integers, Sequences, FiniteSets, TLC

VARIABLES heap, handles, calls, done, last, files

vars == <<heap, handles, calls, done, last, files>>

(***************************************************************************)
(* Bounds of the exploration.                                              *)
(***************************************************************************)
\* operator calls in one run that are drawn from the core argument sets
MaxCalls == 4
\* core calls that may precede the one call drawn from the full method surface
MaxPre == 1
\* objects on the heap
MaxObj == 13
\* depth to which two views of the graph are compared
ViewDepth == 3
MaxConstruct == 1
\* calls that continue a program already run, and the objects on its heap
MaxViewCalls == 2
MaxViewObj == 21

(***************************************************************************)
(* Python values that can appear in an input list: None, int, bool, str,   *)
(* float (by its repr), list (by its repr) and references to node objects. *)
(***************************************************************************)
PyNone == [t |-> "None", n |-> 0, s |-> ""]
\* an argument the call leaves out: a parameter with a default is bound to
\* the default (None for every one of them), a parameter without one makes
\* the call a TypeError before the body runs
NotPassed == [t |-> "not passed", n |-> 0, s |-> ""]
PyInt(i) == [t |-> "int", n |-> i, s |-> ""]
PyBool(b) == [t |-> "bool", n |-> IF b THEN 1 ELSE 0, s |-> ""]
PyStr(x) == [t |-> "str", n |-> 0, s |-> x]
PyList(x) == [t |-> "list", n |-> 0, s |-> x]
PyNode(o) == [t |-> "node", n |-> o, s |-> ""]

IsNode(v) == v.t = "node"

\* Python truth value of an argument: None, 0, False, 0.0, -0.0, the empty
\* string and the empty list are falsy; a float and a list are held by their
\* repr.
Truthy(v) ==
    CASE v.t = "None" -> FALSE
      [] v.t \in {"int", "bool"} -> v.n # 0
      [] v.t = "str" -> v.s # ""
      [] v.t = "list" -> v.s # "[]"
      [] v.t = "float" -> v.s \notin {"0.0", "-0.0"}
      [] OTHER -> TRUE

(***************************************************************************)
(* Index-key components: the values above and slice(lo, hi), whose bounds  *)
(* are <<>> (None) or <<i>>.                                               *)
(***************************************************************************)
KComp(v) == [t |-> v.t, n |-> v.n, s |-> v.s, lo |-> <<>>, hi |-> <<>>]
KSlice(lo, hi) == [t |-> "slice", n |-> 0, s |-> "", lo |-> lo, hi |-> hi]
KValue(c) == [t |-> c.t, n |-> c.n, s |-> c.s]

\* A key is a tuple of components, or a single non-tuple object.
KTuple(cs) == [tuple |-> TRUE, comps |-> cs]
NoKey == [tuple |-> FALSE, comps |-> <<>>]

(***************************************************************************)
(* The heap.                                                               *)
(***************************************************************************)
\* Local data is held by what staging and deepcopy read of it: whether it
\* is an ndarray, the kind and item size of its dtype, whether the dtype's
\* byte order is the other than native one, its number of dimensions, and
\* what its elements are: "plain" (numbers, text, values json writes),
\* "bytes", "none" (an array without elements), "surrogate" (text with a
\* lone surrogate), "circular" (a list that contains itself), "opaque" (an
\* object json does not write) or "uncopyable" (an object that neither
\* json writes nor deepcopy copies, such as a generator).
NoArray ==
    [present |-> FALSE, ndarray |-> FALSE, kind |-> "", size |-> 0,
     swapped |-> FALSE, ndim |-> 0, elems |-> "none"]
Array(kind, size) ==
    [present |-> TRUE, ndarray |-> TRUE, kind |-> kind, size |-> size,
     swapped |-> FALSE, ndim |-> 2, elems |-> IF kind = "S" THEN "bytes" ELSE "plain"]
Shaped(a, ndim) == [a EXCEPT !.ndim = ndim]
Holding(a, elems) == [a EXCEPT !.elems = elems]
\* local data that is not an ndarray and has no dtype, such as a list

\* The orders in which OperationNode.__init__ can assign the attributes,
\* after _Matrix__copy and _np_array, which Matrix.__init__ assigns before
\* it runs.  An order is held by what a copy of an unfinished __dict__
\* shows of it: which of the two lists of node references
\* (_unnamed_input_nodes, consumer_list) is assigned first, and whether the
\* attributes that refer to no node (operation, named inputs, output type,
\* flags) are all assigned before both lists, all before the second list,
\* or not all before it.
AttributeOrders == [first : {"unnamed", "consumer_list"}, rest : {"before", "between", "after"}]
NoOrder == [first |-> "", rest |-> ""]

EmptyHeap ==
    [nobj |-> 0, ndict |-> 0, dictOf |-> <<>>, cls |-> <<>>, dicts |-> <<>>,
     own |-> <<>>, keys |-> <<>>, order |-> NoOrder]

Objects(h) == 1..h.nobj
Attr(h, o) == h.dicts[h.dictOf[o]]

\* the node objects an input list refers to
NodesIn(unnamed) == {unnamed[i].n : i \in {j \in DOMAIN unnamed : IsNode(unnamed[j])}}
\* heap.keys[o] is "all" for a complete __dict__, "none" for one a copy was
\* handed while the first of the two lists was being copied, and "first"
\* for one handed while the second was: it holds the first list.
SeesInputs(h, o) ==
    h.keys[o] = "all" \/ (h.keys[o] = "first" /\ h.order.first = "unnamed")
SeesConsumers(h, o) ==
    h.keys[o] = "all" \/ (h.keys[o] = "first" /\ h.order.first = "consumer_list")
\* o holds operation, output type and flags
SeesRest(h, o) ==
    \/ h.keys[o] = "all"
    \/ h.keys[o] = "none" /\ h.order.rest = "before"
    \/ h.keys[o] = "first" /\ h.order.rest # "after"

InputNodes(h, o) == IF SeesInputs(h, o) THEN NodesIn(Attr(h, o).unnamed) ELSE {}
Range(q) == {q[i] : i \in DOMAIN q}
Consumers(h, o) == IF SeesConsumers(h, o) THEN Range(Attr(h, o).consumer_list) ELSE {}

\* what a call returns: the heap after it, the object returned (0: none),
\* the exception raised ("": none) and the shadow copy made (0: none)
Ret(h, o) == [h |-> h, ret |-> o, err |-> "", shadow |-> 0]
Raise(h, e) == [h |-> h, ret |-> 0, err |-> e, shadow |-> 0]

(***************************************************************************)
(* Node construction.                                                      *)
(***************************************************************************)
\* OperationNode.__init__ registers the new node with its inputs: it is
\* appended to the consumer_list of every node of the input list, in order.
RECURSIVE RegisterConsumer(_, _, _, _, _)
RegisterConsumer(dicts, dictOf, unnamed, i, o) ==
    IF i > Len(unnamed) THEN dicts
    ELSE IF IsNode(unnamed[i])
         THEN LET d == dictOf[unnamed[i].n]
                  grown == [dicts EXCEPT ![d].consumer_list = Append(@, o)]
              IN  RegisterConsumer(grown, dictOf, unnamed, i + 1, o)
         ELSE RegisterConsumer(dicts, dictOf, unnamed, i + 1, o)

\* OperationNode.__init__: a new object of class `class` with a dictionary of
\* its own; unnamed_input_nodes, named_input_nodes and consumer_list default
\* to empty.
OperationNodeInit(h, class, operation, unnamed, output_type, is_local, brackets, left_brackets) ==
    LET o == h.nobj + 1
        d == h.ndict + 1
        fresh == [operation |-> operation,
                  unnamed |-> unnamed,
                  named |-> <<>>,
                  consumer_list |-> <<>>,
                  output_type |-> output_type,
                  is_python_local_data |-> is_local,
                  brackets |-> brackets,
                  left_brackets |-> left_brackets,
                  np_array |-> NoArray,
                  copy |-> FALSE]
        registered == RegisterConsumer(h.dicts, h.dictOf, unnamed, 1, o)
    IN  Ret([nobj |-> o,
             ndict |-> d,
             dictOf |-> Append(h.dictOf, d),
             cls |-> Append(h.cls, class),
             dicts |-> Append(registered, fresh),
             own |-> Append(h.own, o),
             keys |-> Append(h.keys, "all"),
             order |-> h.order], o)

\* Matrix.__init__
MatrixInit(h, operation, unnamed, local_data, brackets, left_brackets, copy) ==
    LET base == OperationNodeInit(h, "Matrix", operation, unnamed, "MATRIX",
                                  local_data.present, brackets, left_brackets)
        d == base.h.dictOf[base.ret]
    IN  [base EXCEPT !.h.dicts[d].np_array = local_data,
                     !.h.dicts[d].copy = copy]

\* Matrix(ctx, operation, inputs) as the operator methods call it
NewMatrix(h, operation, unnamed) ==
    MatrixInit(h, PyStr(operation), unnamed, NoArray, FALSE, FALSE, FALSE)

\* Scalar(ctx, operation, inputs)
NewScalar(h, operation, unnamed) ==
    OperationNodeInit(h, "Scalar", PyStr(operation), unnamed, "SCALAR",
                      FALSE, FALSE, FALSE)

\* Frame(ctx, operation, inputs)
NewFrame(h, operation, unnamed) ==
    OperationNodeInit(h, "Frame", PyStr(operation), unnamed, "FRAME",
                      FALSE, FALSE, FALSE)

\* OperationNode(ctx, operation, inputs, output_type=OutputType.NONE)
NewSink(h, operation, unnamed) ==
    OperationNodeInit(h, "OperationNode", PyStr(operation), unnamed, "NONE",
                      FALSE, FALSE, FALSE)

(***************************************************************************)
(* Operator methods that wrap one constructor call.                        *)
(***************************************************************************)
\* methods returning Matrix(ctx, tag, [self, other])
BinaryTag ==
    [__add__ |-> "+", __sub__ |-> "-", __mul__ |-> "*", __truediv__ |-> "/",
     __pow__ |-> "^", __mod__ |-> "%", __lt__ |-> "<", __le__ |-> "<=",
     __gt__ |-> ">", __ge__ |-> ">=", __eq__ |-> "==", __ne__ |-> "!=",
     __matmul__ |-> "@", solve |-> "solve", cbind |-> "cbind",
     rbind |-> "rbind", pow |-> "pow", log |-> "log", mod |-> "mod",
     max |-> "max", min |-> "min", outerAdd |-> "outerAdd",
     outerSub |-> "outerSub", outerMul |-> "outerMul",
     outerDiv |-> "outerDiv", outerPow |-> "outerPow",
     outerLog |-> "outerLog", outerMod |-> "outerMod",
     outerMin |-> "outerMin", outerMax |-> "outerMax",
     outerAnd |-> "outerAnd", outerOr |-> "outerOr",
     outerXor |-> "outerXor", outerConcat |-> "outerConcat",
     outerEq |-> "outerEq", outerNeq |-> "outerNeq", outerLt |-> "outerLt",
     outerLe |-> "outerLe", outerGt |-> "outerGt", outerGe |-> "outerGe",
     oneHot |-> "oneHot"]
BinaryMethods == DOMAIN BinaryTag

\* reflected comparisons, returning Matrix(ctx, tag, [other, self])
ReflectedTag ==
    [__rlt__ |-> "<", __rle__ |-> "<=", __rgt__ |-> ">", __rge__ |-> ">= ",
     __req__ |-> "==", __rne__ |-> "!="]

\* methods returning Matrix(ctx, tag, [self])
UnaryTag ==
    [__neg__ |-> "minus", abs |-> "abs", sign |-> "sign", exp |-> "exp",
     ln |-> "ln", sqrt |-> "sqrt", isNan |-> "isNan", round |-> "round",
     floor |-> "floor", ceil |-> "ceil", sin |-> "sin", cos |-> "cos",
     tan |-> "tan", sinh |-> "sinh", cosh |-> "cosh", tanh |-> "tanh",
     asin |-> "asin", acos |-> "acos", atan |-> "atan",
     diagVector |-> "diagVector", t |-> "t", reverse |-> "reverse"]

\* methods returning Scalar(ctx, name, [self])
ScalarMethods == {"cumSum", "cumProd", "cumMin", "cumMax", "ncol", "nrow", "ncell"}

\* methods returning Matrix(ctx, name, [self, a, b])
TernaryMethods == {"reshape", "lowerTri", "upperTri", "replace", "ifElse"}

\* mutant: the result replaces the receiver's state instead of being returned
BinaryInPlace(h, self, m, other) ==
    LET made == NewMatrix(h, BinaryTag[m], <<PyNode(self), other>>)
    IN  [made EXCEPT !.h.dictOf[self] = made.h.dictOf[made.ret],
                     !.h.own[self] = made.h.own[made.ret], !.ret = self]

Binary(h, self, m, other) ==
    NewMatrix(h, BinaryTag[m], <<PyNode(self), other>>)

Reflected(h, self, m, other) ==
    NewMatrix(h, ReflectedTag[m], <<other, PyNode(self)>>)

\* mutant: the receiver is retagged and returned instead of a new node
UnaryRetag(h, self, m) ==
    Ret([h EXCEPT !.dicts[h.dictOf[self]].operation = PyStr(UnaryTag[m])], self)

Unary(h, self, m) ==
    NewMatrix(h, UnaryTag[m], <<PyNode(self)>>)

ScalarOf(h, self, m) ==
    NewScalar(h, m, <<PyNode(self)>>)

Ternary(h, self, m, a, b) ==
    NewMatrix(h, m, <<PyNode(self), a, b>>)

\* Matrix.write: the file name is wrapped in double quotes
Write(h, self, file) ==
    NewSink(h, "writeMatrix", <<PyNode(self), PyStr("\"" \o file \o "\"")>>)

\* Matrix.print
PrintNode(h, self) ==
    NewSink(h, "print", <<PyNode(self)>>)

(***************************************************************************)
(* Aggregates and the methods that validate their arguments.               *)
(***************************************************************************)
AxisAggregates == {"sum", "aggMin", "aggMax", "mean", "var", "stddev"}
IdxAggregates == {"idxMin", "idxMax"}

\* Matrix.sum, aggMin, aggMax, mean, var, stddev (axis: int = None)
Aggregate(h, self, m, axis) ==
    IF axis \in {NotPassed, PyNone}
    THEN NewScalar(h, m, <<PyNode(self)>>)
    ELSE NewMatrix(h, m, <<PyNode(self), axis>>)

\* mutant: the axis None falls through to the whole-matrix form
IdxAggregateNoCheck(h, self, m, axis) ==
    IF axis = NotPassed THEN Raise(h, "TypeError")
    ELSE IF axis = PyNone
    THEN NewScalar(h, m, <<PyNode(self)>>)
    ELSE NewScalar(h, m, <<PyNode(self), axis>>)

\* Matrix.idxMin, idxMax (axis: int, without a default)
IdxAggregate(h, self, m, axis) ==
    IF axis = NotPassed THEN Raise(h, "TypeError")
    ELSE IF axis = PyNone
    THEN Raise(h, "RuntimeError")
    ELSE NewScalar(h, m, <<PyNode(self), axis>>)

\* Matrix.bin
Bin(h, self, numBins, Min, Max) ==
    IF (Max = PyNone /\ Min # PyNone) \/ (Min = PyNone /\ Max # PyNone)
    THEN Raise(h, "RuntimeError")
    ELSE IF Truthy(Max) /\ Truthy(Min)
         THEN NewMatrix(h, "bin", <<PyNode(self), numBins, Min, Max>>)
         ELSE NewMatrix(h, "bin", <<PyNode(self), numBins>>)

\* Matrix.order
Order(h, self, colIdxs, ascs, returnIndexes) ==
    IF Len(colIdxs) # Len(ascs)
    THEN Raise(h, "RuntimeError")
    ELSE NewMatrix(h, "order", <<PyNode(self)>> \o colIdxs \o ascs \o <<returnIndexes>>)

\* the node class Matrix.asType picks for a data type name
AsTypeNode(h, dtype, tag, self) ==
    CASE dtype.s = "matrix" -> NewMatrix(h, tag, <<PyNode(self)>>)
      [] dtype.s = "frame" -> NewFrame(h, tag, <<PyNode(self)>>)
      [] dtype.s = "scalar" -> NewScalar(h, tag, <<PyNode(self)>>)
      [] OTHER -> Raise(h, "RuntimeError")

\* Matrix.asType; dtype and vtype are None or a string
AsType(h, self, dtype, vtype) ==
    CASE dtype = PyNone /\ vtype = PyNone -> Raise(h, "RuntimeError")
      [] dtype # PyNone /\ vtype = PyNone ->
            AsTypeNode(h, dtype, "as." \o dtype.s, self)
      [] dtype = PyNone /\ vtype # PyNone ->
            NewMatrix(h, "as." \o vtype.s, <<PyNode(self)>>)
      [] OTHER ->
            AsTypeNode(h, dtype, "as." \o dtype.s \o "<" \o vtype.s \o ">", self)

(***************************************************************************)
(* Indexing.                                                               *)
(***************************************************************************)
IsInstanceSlice(c) == c.t = "slice"
\* bool is a subclass of int
IsInstanceInt(c) == c.t \in {"int", "bool"}
IsInstanceMatrix(h, c) == c.t = "node" /\ h.cls[c.n] = "Matrix"

\* truth value of a Python tuple: true unless it is empty
TupleTruthy(tup) == Len(tup) > 0

Digit == <<"0", "1", "2", "3", "4", "5", "6", "7", "8", "9">>

\* f'{n}' for an int
RECURSIVE NatToStr(_)
NatToStr(n) ==
    IF n < 10 THEN Digit[n + 1] ELSE NatToStr(n \div 10) \o Digit[(n % 10) + 1]

IntToStr(n) == IF n < 0 THEN "-" \o NatToStr(-n) ELSE NatToStr(n)

\* mutant: an omitted bound is formatted like a given one
SliceStringNoneShown(c) ==
    (IF c.lo # <<>> THEN IntToStr(c.lo[1]) ELSE "None") \o ":" \o
    (IF c.hi # <<>> THEN IntToStr(c.hi[1]) ELSE "None")

\* the string built from a slice's start and stop
SliceString(c) ==
    (IF c.lo # <<>> THEN IntToStr(c.lo[1]) ELSE "") \o ":" \o
    (IF c.hi # <<>> THEN IntToStr(c.hi[1]) ELSE "")

\* row_index / column_index
IndexExpr(c) == IF IsInstanceSlice(c) THEN PyStr(SliceString(c)) ELSE KValue(c)

\* the first check of __getitem__ and __setitem__
KeyShapeRefused(key) == ~key.tuple \/ Len(key.comps) # 2

\* the second check of __getitem__, for one component: not applied to the
\* tuple (slice-or-int, Matrix)
GetComponentRefused(h, c) ==
    ~TupleTruthy(<<IsInstanceSlice(c) \/ IsInstanceInt(c), IsInstanceMatrix(h, c)>>)

\* mutant: the check of __getitem__, which lets node-valued components pass
SetComponentAllowsNode(c) == ~(IsInstanceSlice(c) \/ IsInstanceInt(c) \/ c.t = "node")

\* the second check of __setitem__, for one component
SetComponentRefused(c) == ~(IsInstanceSlice(c) \/ IsInstanceInt(c))

\* Matrix.__getitem__
GetItem(h, self, key) ==
    IF KeyShapeRefused(key)
    THEN Raise(h, "TypeError")
    ELSE IF GetComponentRefused(h, key.comps[1]) \/ GetComponentRefused(h, key.comps[2])
         THEN Raise(h, "TypeError")
         ELSE MatrixInit(h, PyNone,
                         <<PyNode(self), IndexExpr(key.comps[1]), IndexExpr(key.comps[2])>>,
                         NoArray, TRUE, FALSE, FALSE)

(***************************************************************************)
(* copy.deepcopy(self).  The copy walks the objects depth first: an object *)
(* is memoised as soon as its copy is allocated, then its __dict__ is      *)
(* copied attribute by attribute, in order, and the copy is updated from   *)
(* the result.  A dictionary and a list are memoised when their copy is    *)
(* started, so an object that holds a __dict__ whose copy is under way is  *)
(* updated from the unfinished copy and keeps only the attributes copied   *)
(* so far.  Copies are numbered in the order of the objects they copy.     *)
(***************************************************************************)
Rank(S, x) == Cardinality({y \in S : y <= x})
ElementAt(S, k) == CHOOSE x \in S : Rank(S, x) = k

\* the objects a list refers to, in order (0 for a literal)
ListObjects(h, sid, name) ==
    IF name = "unnamed"
    THEN [i \in DOMAIN h.dicts[sid].unnamed |->
            IF IsNode(h.dicts[sid].unnamed[i]) THEN h.dicts[sid].unnamed[i].n ELSE 0]
    ELSE h.dicts[sid].consumer_list

\* the memo of a copy that has not started: fill[D] is how far the copy of
\* the __dict__ object D has come ("": not started, "first" and "second":
\* the list being copied, "done")
NoMemo(h, order) ==
    [seen |-> {}, lists |-> {}, order |-> order,
     fill |-> [x \in Objects(h) |-> ""],
     keys |-> [x \in Objects(h) |-> "all"]]

RECURSIVE CopyObject(_, _, _)
RECURSIVE CopyList(_, _, _, _)
RECURSIVE CopyElements(_, _, _, _)

\* deepcopy of the object x under memo st
CopyObject(h, st, x) ==
    IF x \in st.seen THEN st
    ELSE LET D == h.own[x]
             s0 == [st EXCEPT !.seen = @ \cup {x}]
             first == st.order.first
             second == IF first = "unnamed" THEN "consumer_list" ELSE "unnamed"
             Sees(name) == IF name = "unnamed" THEN SeesInputs(h, x) ELSE SeesConsumers(h, x)
         IN  IF st.fill[D] = "first" THEN [s0 EXCEPT !.keys[x] = "none"]
             ELSE IF st.fill[D] = "second" THEN [s0 EXCEPT !.keys[x] = "first"]
             ELSE IF st.fill[D] = "done" THEN [s0 EXCEPT !.keys[x] = h.keys[x]]
             ELSE LET s1 == [s0 EXCEPT !.keys[x] = h.keys[x], !.fill[D] = "first"]
                      s2 == IF Sees(first) THEN CopyList(h, s1, h.dictOf[x], first) ELSE s1
                      s3 == [s2 EXCEPT !.fill[D] = "second"]
                      s4 == IF Sees(second) THEN CopyList(h, s3, h.dictOf[x], second) ELSE s3
                  IN  [s4 EXCEPT !.fill[D] = "done"]

\* deepcopy of a list object
CopyList(h, st, sid, name) ==
    IF <<sid, name>> \in st.lists THEN st
    ELSE CopyElements(h, [st EXCEPT !.lists = @ \cup {<<sid, name>>}],
                      ListObjects(h, sid, name), 1)

CopyElements(h, st, q, i) ==
    IF i > Len(q) THEN st
    ELSE CopyElements(h, IF q[i] = 0 THEN st ELSE CopyObject(h, st, q[i]), q, i + 1)

\* the heap with the copies of the objects in memo.seen, and the copy of o
Copied(h, o, order, memo) ==
    LET R == memo.seen
        D == {h.dictOf[x] : x \in R}
        mo(x) == h.nobj + Rank(R, x)
        md(d) == h.ndict + Rank(D, d)
        CopyValue(v) == IF IsNode(v) THEN PyNode(mo(v.n)) ELSE v
        CopyDict(d) ==
            [h.dicts[d] EXCEPT
                !.unnamed = IF <<d, "unnamed">> \in memo.lists
                            THEN [i \in DOMAIN @ |-> CopyValue(@[i])] ELSE <<>>,
                !.consumer_list = IF <<d, "consumer_list">> \in memo.lists
                                  THEN [i \in DOMAIN @ |-> mo(@[i])] ELSE <<>>]
    IN  [h |-> [nobj |-> h.nobj + Cardinality(R),
                ndict |-> h.ndict + Cardinality(D),
                dictOf |-> h.dictOf \o
                    [k \in 1..Cardinality(R) |-> md(h.dictOf[ElementAt(R, k)])],
                cls |-> h.cls \o
                    [k \in 1..Cardinality(R) |-> h.cls[ElementAt(R, k)]],
                dicts |-> h.dicts \o
                    [k \in 1..Cardinality(D) |-> CopyDict(ElementAt(D, k))],
                own |-> h.own \o [k \in 1..Cardinality(R) |-> h.nobj + k],
                keys |-> h.keys \o
                    [k \in 1..Cardinality(R) |-> memo.keys[ElementAt(R, k)]],
                order |-> IF \E x \in R : memo.keys[x] # "all" THEN order ELSE h.order],
         node |-> mo(o), err |-> ""]

\* copy.deepcopy(o) where OperationNode.__init__ assigns in the given order;
\* the _np_array of every __dict__ met is copied with it, and an element
\* that cannot be copied raises TypeError: no copy is then made
DeepCopy(h, o, order) ==
    LET memo == CopyObject(h, NoMemo(h, order), o)
    IN  IF \E x \in memo.seen : Attr(h, x).np_array.elems = "uncopyable"
        THEN [h |-> h, node |-> 0, err |-> "TypeError"]
        ELSE Copied(h, o, order, memo)

\* OperationNode.update_node_in_input_list: the consumer's references to
\* current_node are redirected to new_node
UpdateNodeInInputList(h, consumer, new_node, current_node) ==
    [h EXCEPT !.dicts[h.dictOf[consumer]].unnamed =
        [i \in DOMAIN @ |-> IF @[i] = PyNode(current_node) THEN PyNode(new_node) ELSE @[i]]]

\* for consumer in self.consumer_list: consumer.update_node_in_input_list(...)
RECURSIVE RedirectConsumers(_, _, _, _, _)
RedirectConsumers(h, consumer_list, i, new_node, self) ==
    IF i > Len(consumer_list) THEN h
    ELSE RedirectConsumers(
            UpdateNodeInInputList(h, consumer_list[i], new_node, self),
            consumer_list, i + 1, new_node, self)

\* Matrix.__setitem__, copied being what copy.deepcopy(self) of line 240
\* gives or raises once the key has passed the checks: the consumers are
\* redirected to the shadow, and self is given the __dict__ of a new write
\* node; an exception of the deep copy leaves the receiver as it was
SetItem(h, copied, self, key, value) ==
    IF KeyShapeRefused(key)
    THEN Raise(h, "TypeError")
    ELSE IF SetComponentRefused(key.comps[1]) \/ SetComponentRefused(key.comps[2])
    THEN Raise(h, "TypeError")
    ELSE IF copied.err # "" THEN Raise(h, copied.err)
    ELSE LET new_node == copied.node
             redirected == RedirectConsumers(copied.h, Attr(copied.h, self).consumer_list,
                                             1, new_node, self)
             made == MatrixInit(redirected, PyNone,
                                <<PyNode(new_node), value,
                                  IndexExpr(key.comps[1]), IndexExpr(key.comps[2])>>,
                                NoArray, FALSE, TRUE, FALSE)
         IN  [h |-> [made.h EXCEPT !.dictOf[self] = made.h.dictOf[made.ret],
                                   !.own[self] = made.h.own[made.ret]],
              ret |-> 0, err |-> "", shadow |-> new_node]

(***************************************************************************)
(* Staging of local data when a node's line is emitted.  An array is       *)
(* modelled by its dtype: the kind character and the item size in bytes.   *)
(***************************************************************************)
\* np.dtype(name) for the names getDType compares with, in native byte
\* order; np.dtype('S') and np.dtype('U') are the zero-width string dtypes
NpDType(name) ==
    CASE name = "float32" -> [kind |-> "f", size |-> 4, swapped |-> FALSE]
      [] name = "float64" -> [kind |-> "f", size |-> 8, swapped |-> FALSE]
      [] name = "int16" -> [kind |-> "i", size |-> 2, swapped |-> FALSE]
      [] name = "int32" -> [kind |-> "i", size |-> 4, swapped |-> FALSE]
      [] name = "int64" -> [kind |-> "i", size |-> 8, swapped |-> FALSE]
      [] name = "uint8" -> [kind |-> "u", size |-> 1, swapped |-> FALSE]
      [] name = "uint16" -> [kind |-> "u", size |-> 2, swapped |-> FALSE]
      [] name = "uint32" -> [kind |-> "u", size |-> 4, swapped |-> FALSE]
      [] name = "uint64" -> [kind |-> "u", size |-> 8, swapped |-> FALSE]
      [] name = "S" -> [kind |-> "S", size |-> 0, swapped |-> FALSE]
      [] name = "U" -> [kind |-> "U", size |-> 0, swapped |-> FALSE]

\* self._np_array.dtype; two dtypes are equal when kind, item size and byte
\* order agree

\* Matrix.getDType
GetDType(d_type) ==
    IF d_type = NpDType("float32") THEN "f32"
    ELSE IF d_type = NpDType("float64") THEN "f64"
    ELSE IF d_type = NpDType("int16") THEN "si16"
    ELSE IF d_type = NpDType("int32") THEN "si32"
    ELSE IF d_type = NpDType("int64") THEN "si64"
    ELSE IF d_type = NpDType("uint8") THEN "ui8"
    ELSE IF d_type = NpDType("uint16") THEN "ui16"
    ELSE IF d_type = NpDType("uint32") THEN "ui32"
    ELSE IF d_type = NpDType("uint64") THEN "ui64"
    ELSE IF d_type = NpDType("S") \/ d_type = NpDType("U") THEN "str"
    ELSE "object"

\* Matrix._is_numpy (the second definition, which replaces the first)

TMP_PATH == "<tmp>"

\* a file in the staging directory: its path, whether it is a metadata
\* sidecar and the valueType in it, and whether its write was completed
DataFile(path, complete) ==
    [path |-> path, meta |-> FALSE, valueType |-> "", complete |-> complete]
MetaFile(path, valueType, complete) ==
    [path |-> path, meta |-> TRUE, valueType |-> valueType, complete |-> complete]

RECURSIVE Join(_, _)
Join(q, sep) ==
    IF q = <<>> THEN ""
    ELSE IF Len(q) = 1 THEN q[1]
    ELSE q[1] \o sep \o Join(Tail(q), sep)

\* OperationNode.code_line: the statement for a node
OperationCodeLine(h, self, var_name, unnamed_input_vars) ==
    LET d == Attr(h, self)
    IN  IF d.brackets
        THEN var_name \o "=" \o unnamed_input_vars[1] \o "["
                \o Join(Tail(unnamed_input_vars), ",") \o "];"
        ELSE IF d.left_brackets
        THEN unnamed_input_vars[1] \o "[" \o Join(Tail(Tail(unnamed_input_vars)), ",")
                \o "]=" \o unnamed_input_vars[2] \o ";" \o var_name \o "="
                \o unnamed_input_vars[1] \o ";"
        ELSE var_name \o "=" \o d.operation.s \o "(" \o Join(unnamed_input_vars, ",") \o ");"

(***************************************************************************)
(* str.format(file_name=var_name, TMP_PATH=TMP_PATH), line 69: the markup  *)
(* of a format string, the lookup of a field, conversion and format spec.  *)
(***************************************************************************)
\* the character of text at position i ("" outside the text)
CharAt(text, i) == IF i >= 1 /\ i <= Len(text) THEN SubSeq(text, i, i) ELSE ""

\* position of the first character of text at or after i that is in chars
\* (past the end: none)
NextOf(text, chars, i) ==
    LET at == {k \in i..Len(text) : SubSeq(text, k, k) \in chars}
    IN  IF at = {} THEN Len(text) + 1 ELSE CHOOSE k \in at : \A j \in at : k <= j

\* position of the first c in text at or after i (0: none)
Find(text, c, i) == IF NextOf(text, {c}, i) > Len(text) THEN 0 ELSE NextOf(text, {c}, i)

IsDigits(x) == \A k \in 1..Len(x) : SubSeq(x, k, k) \in Range(Digit)

DigitValue(c) == CHOOSE n \in 0..9 : Digit[n + 1] = c

\* a digit string without its leading zeros
StripZeros(x) ==
    LET k == NextOf(x, Range(Digit) \ {"0"}, 1)
    IN  IF x = "" THEN "" ELSE IF k > Len(x) THEN "0" ELSE SubSeq(x, k, Len(x))

\* digit strings of equal length: x stands for a greater number than y
DigitsGreater(x, y, i) ==
    \E k \in i..Len(x) :
        /\ DigitValue(SubSeq(x, k, k)) > DigitValue(SubSeq(y, k, k))
        /\ \A j \in i..(k - 1) : SubSeq(x, j, j) = SubSeq(y, j, j)

\* get_integer: the digits stand for more than sys.maxsize
TooManyDigits(x) ==
    LET z == StripZeros(x)
    IN  Len(z) > 19 \/ (Len(z) = 19 /\ DigitsGreater(z, "9223372036854775807", 1))

\* the number a short digit string stands for
RECURSIVE DigitsValue(_)
DigitsValue(x) ==
    IF x = "" THEN 0
    ELSE 10 * DigitsValue(SubSeq(x, 1, Len(x) - 1)) + DigitValue(SubSeq(x, Len(x), Len(x)))

\* a text is spelled out up to a length of MaxDigits digits
MaxDigits == 6
Huge(x) == Len(StripZeros(x)) > MaxDigits

\* end of the digits of text that start at i (i when there is none)
DigitsEnd(text, i) ==
    LET at == {k \in i..Len(text) : SubSeq(text, k, k) \notin Range(Digit)}
    IN  IF at = {} THEN Len(text) + 1 ELSE CHOOSE k \in at : \A j \in at : k <= j

\* get_integer on a name: the digits it starts with stand for more than
\* sys.maxsize
IntegerOverflow(x) == DigitsEnd(x, 1) > 1 /\ TooManyDigits(SubSeq(x, 1, DigitsEnd(x, 1) - 1))

RECURSIVE Pad(_, _)
Pad(c, n) ==
    IF n <= 0 THEN ""
    ELSE LET half == Pad(c, n \div 2)
         IN  half \o half \o (IF n % 2 = 1 THEN c ELSE "")

\* the names dir(str) lists: the attributes of a str that are method
\* wrappers, those that are built-in methods of the type object, __doc__,
\* __class__, and the built-in methods of the str object
MethodWrappers ==
    {"__add__", "__contains__", "__delattr__", "__eq__", "__ge__",
     "__getattribute__", "__getitem__", "__gt__", "__hash__", "__init__",
     "__iter__", "__le__", "__len__", "__lt__", "__mod__", "__mul__", "__ne__",
     "__repr__", "__rmod__", "__rmul__", "__setattr__", "__str__"}
StrAttributes ==
    MethodWrappers \cup {"__init_subclass__", "__new__", "__subclasshook__", "maketrans"} \cup
    {"__class__", "__doc__", "__dir__", "__format__", "__getnewargs__",
     "__getstate__", "__reduce__", "__reduce_ex__", "__sizeof__",
     "capitalize", "casefold", "center", "count", "encode",
     "endswith", "expandtabs", "find", "format", "format_map", "index", "isalnum",
     "isalpha", "isascii", "isdecimal", "isdigit", "isidentifier", "islower",
     "isnumeric", "isprintable", "isspace", "istitle", "isupper", "join", "ljust",
     "lower", "lstrip", "partition", "removeprefix", "removesuffix",
     "replace", "rfind", "rindex", "rjust", "rpartition", "rsplit", "rstrip",
     "split", "splitlines", "startswith", "strip", "swapcase", "title",
     "translate", "upper", "zfill"}

\* str.__doc__
StrDoc ==
    "str(object='') -> str\nstr(bytes_or_buffer[, encoding[, errors]]) -> str\n\n"
    \o "Create a new string object from the given object. If encoding or\n"
    \o "errors is specified, then the object must expose a data buffer\n"
    \o "that will be decoded using the given encoding and error handler.\n"
    \o "Otherwise, returns the result of object.__str__() (if defined)\n"
    \o "or repr(object).\nencoding defaults to sys.getdefaultencoding().\n"
    \o "errors defaults to 'strict'."

\* The value a field resolves to: a str (kind "str", its text s), the type
\* object str ("type", s its repr), a method of a str ("method", s its repr
\* up to the address it holds), the str or repr of a method ("address": a
\* str that starts with s and goes on with an address and ">"), or an
\* attribute of one of these that is no str ("other").
StrValue(s) == [s |-> s, kind |-> "str"]
Value(s, kind) == [s |-> s, kind |-> kind]

\* What formatting gives: a text, an exception raised, or, when may is not
\* empty, any of the outcomes in may: an exception of that name, or (for "")
\* a text that is not spelled out, because it holds an address, is longer
\* than the length bound, or comes from an attribute that is not followed.
Failed(e) == [text |-> "", err |-> e, may |-> {}]
Shown(t) == [text |-> t, err |-> "", may |-> {}]
Among(M) ==
    IF Cardinality(M) = 1 /\ "" \notin M
    THEN Failed(CHOOSE e \in M : TRUE)
    ELSE [text |-> "", err |-> "", may |-> M]
\* the outcomes of a lookup or a rendering that is not followed
FormatOutcomes ==
    {"", "AttributeError", "IndexError", "KeyError", "MemoryError", "TypeError",
     "ValueError"}

\* repr of a str made of printable characters and line feeds, between
\* quotes q
RECURSIVE Escaped(_, _)
Escaped(s, q) ==
    IF Len(s) = 0 THEN ""
    ELSE IF Len(s) = 1
    THEN (IF s = "\n" THEN "\\n" ELSE IF s = "\\" \/ s = q THEN "\\" \o s ELSE s)
    ELSE Escaped(SubSeq(s, 1, Len(s) \div 2), q)
            \o Escaped(SubSeq(s, Len(s) \div 2 + 1, Len(s)), q)

Repr(s) ==
    IF Find(s, "'", 1) # 0 /\ Find(s, "\"", 1) = 0
    THEN "\"" \o Escaped(s, "\"") \o "\""
    ELSE "'" \o Escaped(s, "'") \o "'"

\* MarkupIterator_next, the field name: position of the "}", ":" or "!" that
\* ends the field name which starts at i; "[" runs to the next "]"; 0 when
\* the text ends first or a "{" is met
RECURSIVE FieldNameStop(_, _)
FieldNameStop(text, i) ==
    LET k == NextOf(text, {"{", "}", ":", "!", "["}, i)
        c == CharAt(text, k)
    IN  IF c \in {"", "{"} THEN 0
        ELSE IF c = "["
        THEN LET j == Find(text, "]", k + 1)
             IN  IF j = 0 THEN 0 ELSE FieldNameStop(text, j + 1)
        ELSE k

\* position of the "}" that closes the format spec starting at i, braces in
\* the spec counted (0: none)
RECURSIVE SpecStop(_, _, _)
SpecStop(text, i, count) ==
    LET k == NextOf(text, {"{", "}"}, i)
    IN  IF k > Len(text) THEN 0
        ELSE IF SubSeq(text, k, k) = "{" THEN SpecStop(text, k + 1, count + 1)
        ELSE IF count = 1 THEN k
        ELSE SpecStop(text, k + 1, count - 1)

\* MarkupIterator_next: the replacement field whose first character is at i
ParseField(text, i) ==
    LET stop == FieldNameStop(text, i)
        c == CharAt(text, stop)
        conversion == IF c = "!" THEN CharAt(text, stop + 1) ELSE ""
        after == IF c = "!" THEN CharAt(text, stop + 2) ELSE ""
        specStart == IF c = ":" THEN stop + 1
                     ELSE IF after = "" THEN stop + 2 ELSE stop + 3
        specEnd == SpecStop(text, specStart, 1)
        field(conv, spec, next) ==
            [name |-> SubSeq(text, i, stop - 1), conversion |-> conv, spec |-> spec,
             next |-> next, err |-> ""]
        bad == [name |-> "", conversion |-> "", spec |-> "", next |-> 0,
                err |-> "ValueError"]
    IN  IF stop = 0 THEN bad
        ELSE IF c = "}" THEN field("", "", stop + 1)
        ELSE IF c = "!" /\ conversion = "" THEN bad
        ELSE IF c = "!" /\ after = "}" THEN field(conversion, "", stop + 3)
        ELSE IF c = "!" /\ after \notin {"", ":"} THEN bad
        ELSE IF specEnd = 0 THEN bad
        ELSE field(conversion, SubSeq(text, specStart, specEnd - 1), specEnd + 1)

\* getattr(obj, name): a name a str does not have is an AttributeError;
\* an attribute of a value that is no str is not followed
StrAttr(obj, name) ==
    IF obj.kind # "str" THEN [obj |-> Value("", "other"), err |-> ""]
    ELSE IF name \notin StrAttributes THEN [obj |-> obj, err |-> "AttributeError"]
    ELSE IF name = "__doc__" THEN [obj |-> StrValue(StrDoc), err |-> ""]
    ELSE IF name = "__class__" THEN [obj |-> Value("<class 'str'>", "type"), err |-> ""]
    ELSE IF name \in MethodWrappers
    THEN [obj |-> Value("<method-wrapper '" \o name \o "' of str object at 0x", "method"),
          err |-> ""]
    ELSE [obj |-> Value("<built-in method " \o name \o " of "
                            \o (IF name \in {"__init_subclass__", "__new__", "__subclasshook__", "maketrans"}
                                THEN "type" ELSE "str")
                            \o " object at 0x", "method"),
          err |-> ""]

\* obj[key]: a str takes an index within its length; a type and a method
\* take none
StrItem(obj, key) ==
    IF obj.kind # "str" \/ key = "" \/ ~IsDigits(key) THEN [obj |-> obj, err |-> "TypeError"]
    ELSE IF Huge(key) \/ DigitsValue(StripZeros(key)) >= Len(obj.s)
    THEN [obj |-> obj, err |-> "IndexError"]
    ELSE [obj |-> StrValue(CharAt(obj.s, DigitsValue(StripZeros(key)) + 1)), err |-> ""]

\* FieldNameIterator_next and the lookups of get_field_object: the ".name"
\* and "[key]" parts of a field name, from position i of rest
RECURSIVE Access(_, _, _)
Access(obj, rest, i) ==
    IF i > Len(rest) \/ obj.kind = "other" THEN [obj |-> obj, err |-> ""]
    ELSE LET c == SubSeq(rest, i, i)
             bad == [obj |-> obj, err |-> "ValueError"]
         IN  IF c = "."
             THEN LET e == NextOf(rest, {".", "["}, i + 1)
                      name == SubSeq(rest, i + 1, e - 1)
                      got == StrAttr(obj, name)
                  IN  IF name = "" THEN bad
                      ELSE IF got.err # "" THEN got
                      ELSE Access(got.obj, rest, e)
             ELSE IF c = "["
             THEN LET j == Find(rest, "]", i + 1)
                      key == SubSeq(rest, i + 1, j - 1)
                      got == StrItem(obj, key)
                  IN  IF j = 0 \/ key = "" THEN bad
                      ELSE IF IntegerOverflow(key) THEN bad
                      ELSE IF got.err # "" THEN got
                      ELSE Access(got.obj, rest, j + 1)
             ELSE bad

\* get_field_object: the value a field name stands for; no positional
\* argument is passed, so a number and the empty name are out of range
GetField(name, var_name) ==
    LET e == NextOf(name, {".", "["}, 1)
        first == SubSeq(name, 1, e - 1)
        none == StrValue("")
    IN  IF IntegerOverflow(first)
        THEN [obj |-> none, err |-> "ValueError"]
        ELSE IF first = "" \/ IsDigits(first) THEN [obj |-> none, err |-> "IndexError"]
        ELSE IF first = "file_name" THEN Access(StrValue(var_name), name, e)
        ELSE IF first = "TMP_PATH" THEN Access(StrValue(TMP_PATH), name, e)
        ELSE [obj |-> none, err |-> "KeyError"]

\* do_conversion: str(obj), repr(obj) or ascii(obj)
Convert(obj, conversion) ==
    IF conversion = "" THEN [obj |-> obj, err |-> ""]
    ELSE IF conversion \notin {"s", "r", "a"} THEN [obj |-> obj, err |-> "ValueError"]
    ELSE IF obj.kind = "type" THEN [obj |-> StrValue(obj.s), err |-> ""]
    ELSE IF obj.kind = "method" THEN [obj |-> Value(obj.s, "address"), err |-> ""]
    ELSE IF obj.kind = "str" /\ conversion # "s"
    THEN [obj |-> StrValue(Repr(obj.s)), err |-> ""]
    ELSE [obj |-> obj, err |-> ""]

\* parse_internal_render_format_spec, [[fill]align]: the fill ("": none
\* given), the alignment and the position after them
SpecAlign(spec) ==
    LET Aligns == {"<", ">", "=", "^"}
        fillGiven == CharAt(spec, 2) \in Aligns
        alignGiven == fillGiven \/ CharAt(spec, 1) \in Aligns
    IN  [fill |-> IF fillGiven THEN CharAt(spec, 1) ELSE "",
         align |-> IF fillGiven THEN CharAt(spec, 2)
                   ELSE IF alignGiven THEN CharAt(spec, 1) ELSE "<",
         at |-> IF fillGiven THEN 3 ELSE IF alignGiven THEN 2 ELSE 1]

\* the position after the character at p when it is one of chars
SkipOne(spec, p, chars) == IF CharAt(spec, p) \in chars THEN p + 1 ELSE p

\* parse_internal_render_format_spec, [sign][z][#][0] after the alignment f:
\* the 0 flag is read when no fill was given and is then the fill
SpecFlags(spec, f) ==
    LET p4 == SkipOne(spec, SkipOne(spec, SkipOne(spec, f.at, {"+", "-", " "}), {"z"}), {"#"})
        p5 == IF f.fill = "" THEN SkipOne(spec, p4, {"0"}) ELSE p4
    IN  [fill |-> IF f.fill # "" THEN f.fill ELSE IF p5 > p4 THEN "0" ELSE " ",
         align |-> f.align, flagged |-> p4 > f.at, at |-> p5]

\* parse_internal_render_format_spec, [width][grouping][.precision][type]
\* after the flags f
SpecWidth(spec, f) ==
    LET p6 == DigitsEnd(spec, f.at)
        dot == CharAt(spec, p6) = "."
        p7 == IF dot THEN DigitsEnd(spec, p6 + 1) ELSE p6
    IN  [fill |-> f.fill, align |-> f.align, flagged |-> f.flagged,
         width |-> SubSeq(spec, f.at, p6 - 1),
         grouping |-> CharAt(spec, p6) \in {",", "_"},
         dot |-> dot,
         precision |-> IF dot THEN SubSeq(spec, p6 + 1, p7 - 1) ELSE "",
         type |-> SubSeq(spec, p7, Len(spec))]

\* the text kept under a precision
Truncated(s, f) ==
    IF f.dot /\ ~Huge(f.precision) /\ DigitsValue(StripZeros(f.precision)) < Len(s)
    THEN SubSeq(s, 1, DigitsValue(StripZeros(f.precision)))
    ELSE s

\* the text kept, filled to the width on the side the alignment leaves free
Padded(kept, f, room) ==
    LET left == IF f.align = ">" THEN room ELSE IF f.align = "^" THEN room \div 2 ELSE 0
    IN  Pad(f.fill, left) \o kept \o Pad(f.fill, room - left)

\* format_string_internal: a str takes fill, align (but "="), the 0 flag,
\* width, precision and type "s"; a sign, "z" or "#" is refused
FormatString(s, f) ==
    IF f.width # "" /\ TooManyDigits(f.width) THEN Failed("ValueError")
    ELSE IF f.grouping THEN Failed("ValueError")
    ELSE IF f.dot /\ (f.precision = "" \/ TooManyDigits(f.precision)) THEN Failed("ValueError")
    ELSE IF Len(f.type) > 1 \/ f.type \notin {"", "s"} THEN Failed("ValueError")
    ELSE IF f.flagged \/ f.align = "=" THEN Failed("ValueError")
    ELSE IF f.width # "" /\ Huge(f.width) THEN Among({"", "MemoryError"})
    ELSE Shown(Padded(Truncated(s, f), f,
                      IF f.width = "" THEN 0
                      ELSE DigitsValue(StripZeros(f.width)) - Len(Truncated(s, f))))

\* str.__format__: the spec is parsed as
\* [[fill]align][sign][z][#][0][width][grouping][.precision][type]
FormatStr(s, spec) ==
    IF spec = "" THEN Shown(s)
    ELSE FormatString(s, SpecWidth(spec, SpecFlags(spec, SpecAlign(spec))))

\* format(obj, spec): a str is rendered under the spec; a type and a
\* method show their str under the empty spec and take no other; the text
\* of a str that holds an address is spelled out when the precision cuts
\* it before the address
Render(obj, spec) ==
    IF obj.kind = "str" THEN FormatStr(obj.s, spec)
    ELSE IF obj.kind = "address"
    THEN IF FormatStr(obj.s, spec) = FormatStr(obj.s \o ">", spec)
         THEN FormatStr(obj.s, spec)
         ELSE Among({""} \cup FormatStr(obj.s, spec).may)
    ELSE IF spec # "" THEN Failed("TypeError")
    ELSE IF obj.kind = "type" THEN Shown(obj.s)
    ELSE Among({""})

\* what first shows followed by what the rest of the format string shows
Then(first, rest) ==
    IF first.err # "" THEN first
    ELSE IF first.may = {}
    THEN IF rest.err # "" \/ rest.may # {} THEN rest
         ELSE Shown(first.text \o rest.text)
    ELSE IF "" \notin first.may THEN first
    ELSE Among((first.may \ {""})
               \cup (IF rest.err # "" THEN {rest.err}
                     ELSE IF rest.may # {} THEN rest.may ELSE {""}))

\* build_string: the text from position i on, with depth levels of
\* replacement fields left ("{{" and "}}" stand for a brace; a brace on its
\* own is a ValueError)
RECURSIVE FormatAt(_, _, _, _)

\* render_field: the value conv rendered under the format spec formatted
\* before it; a spec that is not spelled out leaves the rendering open
RenderField(conv, spec) ==
    IF conv.obj.kind = "other" THEN Among(FormatOutcomes)
    ELSE IF conv.err # "" THEN Failed(conv.err)
    ELSE IF spec.err # "" THEN spec
    ELSE IF spec.may = {} THEN Render(conv.obj, spec.text)
    ELSE Among((spec.may \ {""})
               \cup (IF "" \in spec.may
                     THEN {"", "MemoryError", "TypeError", "ValueError"} ELSE {}))

\* output_markup: the replacement field f, then the rest of the text; the
\* field is looked up, converted, and rendered under its format spec (a
\* format spec that holds fields is formatted first, one level deeper)
OutputMarkup(text, var_name, depth, f) ==
    LET got == GetField(f.name, var_name)
    IN  IF f.err # "" THEN Failed("ValueError")
        ELSE IF got.err # "" THEN Failed(got.err)
        ELSE Then(RenderField(Convert(got.obj, f.conversion),
                              IF Find(f.spec, "{", 1) = 0 THEN Shown(f.spec)
                              ELSE IF depth <= 1 THEN Failed("ValueError")
                              ELSE FormatAt(f.spec, 1, var_name, depth - 1)),
                  FormatAt(text, f.next, var_name, depth))

FormatAt(text, i, var_name, depth) ==
    IF i > Len(text) THEN Shown("")
    ELSE LET c == SubSeq(text, i, i)
             next == CharAt(text, i + 1)
         IN  IF c = "{" /\ next = "{" THEN Then(Shown("{"), FormatAt(text, i + 2, var_name, depth))
             ELSE IF c = "}" /\ next = "}" THEN Then(Shown("}"), FormatAt(text, i + 2, var_name, depth))
             ELSE IF c = "}" THEN Failed("ValueError")
             ELSE IF c = "{" /\ next = "" THEN Failed("ValueError")
             ELSE IF c = "{" THEN OutputMarkup(text, var_name, depth, ParseField(text, i + 1))
             ELSE Then(Shown(SubSeq(text, i, NextOf(text, {"{", "}"}, i) - 1)),
                       FormatAt(text, NextOf(text, {"{", "}"}, i), var_name, depth))

\* str.format(file_name=var_name, TMP_PATH=TMP_PATH): the text from position
\* i on
Format(text, i, var_name) == FormatAt(text, i, var_name, 2)

\* json.dump(self._np_array.tolist(), f, ensure_ascii=False), lines 74-75,
\* into a file opened with encoding utf-8: the exception raised ("": none).
\* Bytes and an object json does not know are a TypeError, a list that
\* contains itself is a ValueError, and a lone surrogate cannot be encoded.
JsonDump(a) ==
    CASE a.elems = "none" -> ""
      [] a.elems = "surrogate" -> "UnicodeEncodeError"
      [] a.elems = "circular" -> "ValueError"
      [] a.elems \in {"bytes", "opaque", "uncopyable"} -> "TypeError"
      [] OTHER -> ""

\* np.savetxt(f, self._np_array, delimiter=","), lines 88-89: an array of
\* no or of more than two dimensions is a ValueError, a row of datetimes a
\* TypeError
SaveTxt(a) ==
    IF a.ndim = 0 \/ a.ndim > 2 THEN "ValueError"
    ELSE IF a.kind = "M" /\ a.elems # "none" THEN "TypeError"
    ELSE ""

\* Matrix.code_line, lines 70-98, the staging of local data under the name
\* var_name: the exception raised and the files created.  Local data
\* without a dtype raises AttributeError at line 71; a file is created when
\* it is opened; np.shape(a)[0] or np.shape(a)[1] raises IndexError on an
\* array of fewer than two dimensions after the sidecar was opened.
Staging(h, self, var_name) ==
    LET d == Attr(h, self)
        a == d.np_array
        text == a.kind \in {"U", "S", "O"}
        data == TMP_PATH \o "/" \o var_name \o (IF text THEN ".json" ELSE ".csv")
        dump == IF text THEN JsonDump(a) ELSE SaveTxt(a)
    IN  IF ~(Attr(h, self).np_array.present /\ d.operation = PyStr("readMatrix"))
        THEN [err |-> "", wrote |-> {}]
        ELSE IF ~a.ndarray
        THEN [err |-> "AttributeError", wrote |-> {}]
        ELSE IF dump # ""
        THEN [err |-> dump, wrote |-> {DataFile(data, FALSE)}]
        ELSE IF a.ndim < 2
        THEN [err |-> "IndexError",
              wrote |-> {DataFile(data, TRUE), MetaFile(data \o ".meta", "", FALSE)}]
        ELSE [err |-> "",
              wrote |-> {DataFile(data, TRUE),
                         MetaFile(data \o ".meta", GetDType([kind |-> a.kind, size |-> a.size, swapped |-> a.swapped]), TRUE)}]

\* lines 69-99: the formatted line made, then the staging step staged.
\* When the line has several outcomes (made.may), an exception among them
\* is raised before anything is staged, and the line that is not spelled
\* out is followed by the staging step.
Staged(made, staged) ==
    IF made.err # "" THEN [line |-> "", err |-> made.err, wrote |-> {}, may |-> {}]
    ELSE [line |-> IF staged.err = "" THEN made.text ELSE "",
          err |-> staged.err, wrote |-> staged.wrote, may |-> made.may]

\* Matrix.code_line: the line returned, the exception raised and the files
\* created; the node of a copy returns its line before anything else
CodeLine(h, self, var_name, unnamed_input_vars) ==
    IF Attr(h, self).copy
    THEN IF unnamed_input_vars = <<>>
         THEN [line |-> "", err |-> "IndexError", wrote |-> {}, may |-> {}]
         ELSE [line |-> var_name \o "=" \o unnamed_input_vars[1] \o ";",
               err |-> "", wrote |-> {}, may |-> {}]
    ELSE Staged(Format(OperationCodeLine(h, self, var_name, unnamed_input_vars), 1, var_name),
                Staging(h, self, var_name))

\* the result r of code_line when the outcome of its line is pick: pick is
\* raised when the line can raise it, and the line is returned otherwise
Resolve(r, pick) ==
    IF r.may # {} /\ pick # "" /\ pick \in r.may
    THEN [line |-> "", err |-> pick, wrote |-> {}, may |-> {}]
    ELSE IF r.may # {} THEN [r EXCEPT !.may = {""}]
    ELSE r

(***************************************************************************)
(* Matrix.compute hands over to OperationNode.compute: the script emitter  *)
(* walks the DAG reachable from the target, every input node before the    *)
(* node that reads it, gives each node a fresh variable name and asks it   *)
(* for its line, which stages local data; a step that fails ends the call. *)
(***************************************************************************)
\* the text the emitter passes for a literal input: the text of a string,
\* the digits of an int
Literal(v) == IF v.t \in {"int", "bool"} THEN IntToStr(v.n) ELSE v.s

\* an emission pass before its first node: the name of each node ("": not
\* yet emitted), the names given, the lines emitted ("" for one that is not
\* spelled out), the files written, the outcome pick taken where a line
\* has several, whether a line had several (open), and whether every such
\* line can raise pick or return (fits)
NoScript(h, pick) ==
    [name |-> [o \in Objects(h) |-> ""], count |-> 0, lines |-> <<>>,
     wrote |-> {}, err |-> "", pick |-> pick, open |-> FALSE, fits |-> TRUE]

\* path holds the nodes whose inputs are being emitted: on a cycle the walk
\* does not end, which Python ends with RecursionError.  A copy that holds
\* part of the attributes raises AttributeError where a missing one is read.
RECURSIVE EmitNode(_, _, _, _), EmitInputs(_, _, _, _, _)
EmitInputs(h, st, o, i, path) ==
    LET q == Attr(h, o).unnamed
    IN  IF st.err # "" \/ i > Len(q) THEN st
        ELSE EmitInputs(h, IF IsNode(q[i]) THEN EmitNode(h, st, q[i].n, path) ELSE st,
                        o, i + 1, path)

\* the names the emitter passes for the inputs of o
InputNames(h, s1, o) ==
    LET q == Attr(h, o).unnamed
    IN  [i \in DOMAIN q |-> IF IsNode(q[i]) THEN s1.name[q[i].n] ELSE Literal(q[i])]

\* the pass s1 after node o was given var_name and its line r, whose
\* outcome was `open` before it was resolved
Emitted(s1, o, var_name, r, open) ==
    [name |-> [s1.name EXCEPT ![o] = var_name],
     count |-> s1.count + 1,
     lines |-> IF r.err = "" THEN Append(s1.lines, r.line) ELSE s1.lines,
     wrote |-> {f \in s1.wrote : f.path \notin {g.path : g \in r.wrote}} \cup r.wrote,
     err |-> r.err,
     pick |-> s1.pick,
     open |-> s1.open \/ open # {},
     fits |-> s1.fits /\ (open = {} \/ s1.pick \in open \/ "" \in open)]

\* node o emitted under the next fresh name once its inputs are (s1)
EmitSelf(h, s1, o) ==
    IF s1.err # "" THEN s1
    ELSE IF ~SeesRest(h, o) THEN [s1 EXCEPT !.err = "AttributeError"]
    ELSE IF h.cls[o] = "Matrix"
    THEN Emitted(s1, o, "V" \o NatToStr(s1.count + 1),
                 Resolve(CodeLine(h, o, "V" \o NatToStr(s1.count + 1), InputNames(h, s1, o)),
                         s1.pick),
                 CodeLine(h, o, "V" \o NatToStr(s1.count + 1), InputNames(h, s1, o)).may)
    ELSE Emitted(s1, o, "V" \o NatToStr(s1.count + 1),
                 [line |-> OperationCodeLine(h, o, "V" \o NatToStr(s1.count + 1),
                                             InputNames(h, s1, o)),
                  err |-> "", wrote |-> {}, may |-> {}], {})

\* the pass st after node o and what it reads were emitted, inputs first
EmitNode(h, st, o, path) ==
    IF st.err # "" \/ st.name[o] # "" THEN st
    ELSE IF o \in path THEN [st EXCEPT !.err = "RecursionError"]
    ELSE IF ~SeesInputs(h, o) THEN [st EXCEPT !.err = "AttributeError"]
    ELSE EmitSelf(h, EmitInputs(h, st, o, 1, path \cup {o}), o)

\* Matrix.compute: the emission pass over the DAG of self; the engine then
\* runs the script and the result is read back, neither of which changes a
\* node or a staged file; pick is the outcome taken by a line that has
\* several
Compute(h, self, pick) == EmitNode(h, NoScript(h, pick), self, {})

(***************************************************************************)
(* The state machine.  A run starts from one source matrix holding local   *)
(* data and makes operator calls on the handles the caller holds.  Calls   *)
(* drawn from the core argument sets can follow one another up to MaxCalls *)
(* deep; a call drawn from the full method surface and the full argument   *)
(* sets (broad) is the last call of its run.                               *)
(***************************************************************************)
SourceHeap == MatrixInit(EmptyHeap, PyStr("readMatrix"), <<>>, Array("f", 8), FALSE, FALSE, FALSE).h

\* the record of the call just made; line and wrote are code_line's results
NoCall == [m |-> "init", self |-> 0, key |-> NoKey, args |-> <<>>,
           err |-> "", ret |-> 1, shadow |-> 0, line |-> "", wrote |-> {},
           pick |-> ""]

Init ==
    /\ heap = SourceHeap
    /\ handles = {1}
    /\ calls = 0
    /\ done = FALSE
    /\ last = NoCall
    /\ files = {}

\* handles whose class is Matrix: the receivers of the methods
Receivers == {o \in handles : heap.cls[o] = "Matrix"}

\* operands: a literal or a node the caller holds
Operands == {PyInt(2)} \cup {PyNode(o) : o \in handles}

CoreKeys == {KTuple(<<KComp(PyInt(0)), KComp(PyInt(0))>>)}


\* key components of every kind the checks tell apart
KeyComps ==
    {KComp(PyInt(0)), KComp(PyBool(TRUE)), KSlice(<<1>>, <<3>>), KSlice(<<>>, <<>>),
     KSlice(<<2>>, <<>>), KSlice(<<>>, <<12>>), KComp(PyStr("a")), KComp([t |-> "float", n |-> 0, s |-> "1.5"]),
     KComp(PyList("[0, 1]"))}
    \cup {KComp(PyNode(o)) : o \in handles}
Keys ==
    {KTuple(<<a, b>>) : a \in KeyComps, b \in KeyComps}
    \cup {[tuple |-> FALSE, comps |-> <<a>>] : a \in KeyComps}
    \cup {KTuple(<<a>>) : a \in KeyComps}
    \cup {KTuple(<<a, a, a>>) : a \in {KComp(PyInt(0)), KSlice(<<>>, <<>>)}}

\* one call: its result r becomes the state
CanCall(broad) == ~done /\ (IF broad THEN calls <= MaxPre ELSE calls < MaxCalls)

StepWithin(limit, m, self, key, args, r, broad) ==
    /\ r.h.nobj <= limit
    /\ heap' = r.h
    /\ handles' = IF r.ret # 0 THEN handles \cup {r.ret} ELSE handles
    /\ calls' = calls + 1
    /\ done' = broad
    /\ last' = [m |-> m, self |-> self, key |-> key, args |-> args,
                err |-> r.err, ret |-> r.ret, shadow |-> r.shadow,
                line |-> "", wrote |-> {}, pick |-> ""]
    /\ UNCHANGED files

Step(m, self, key, args, r, broad) == StepWithin(MaxObj, m, self, key, args, r, broad)

BinaryCall ==
    \E broad \in BOOLEAN :
        /\ CanCall(broad)
        /\ \E self \in Receivers, other \in Operands, m \in (IF broad THEN BinaryMethods ELSE {"__add__"}) :
            Step(m, self, NoKey, <<other>>, Binary(heap, self, m, other), broad)

ReflectedCall ==
    /\ CanCall(TRUE)
    /\ \E self \in Receivers, other \in Operands, m \in (DOMAIN ReflectedTag) :
        Step(m, self, NoKey, <<other>>, Reflected(heap, self, m, other), TRUE)

UnaryCall ==
    /\ CanCall(TRUE)
    /\ \E self \in Receivers, m \in (DOMAIN UnaryTag) :
        Step(m, self, NoKey, <<>>, Unary(heap, self, m), TRUE)

ScalarCall ==
    /\ CanCall(TRUE)
    /\ \E self \in Receivers, m \in ScalarMethods :
        Step(m, self, NoKey, <<>>, ScalarOf(heap, self, m), TRUE)

TernaryCall ==
    /\ CanCall(TRUE)
    /\ \E self \in Receivers, m \in TernaryMethods, ab \in ({<<PyInt(2), PyInt(3)>>} \cup {<<PyNode(o), PyBool(FALSE)>> : o \in handles}) :
        Step(m, self, NoKey, ab, Ternary(heap, self, m, ab[1], ab[2]), TRUE)

AggregateCall ==
    /\ CanCall(TRUE)
    /\ \E self \in Receivers, m \in AxisAggregates,
          axis \in {NotPassed, PyNone, PyInt(0), PyInt(1)} :
        Step(m, self, NoKey, <<axis>>, Aggregate(heap, self, m, axis), TRUE)

IdxAggregateCall ==
    /\ CanCall(TRUE)
    /\ \E self \in Receivers, m \in IdxAggregates,
          axis \in {NotPassed, PyNone, PyInt(0), PyInt(1)} :
        Step(m, self, NoKey, <<axis>>, IdxAggregate(heap, self, m, axis), TRUE)

BinCall ==
    /\ CanCall(TRUE)
    /\ \E self \in Receivers, Min \in {PyNone, PyInt(0), PyBool(FALSE), PyInt(1), [t |-> "float", n |-> 0, s |-> "-0.0"], PyStr("[]")}, Max \in {PyNone, PyInt(0), PyInt(10), PyStr("[]"), PyList("[]")} :
        Step("bin", self, NoKey, <<PyInt(5), Min, Max>>,
             Bin(heap, self, PyInt(5), Min, Max), TRUE)

OrderCall ==
    /\ CanCall(TRUE)
    /\ \E self \in Receivers, colIdxs \in {<<>>, <<PyInt(0)>>, <<PyInt(0), PyInt(1)>>}, ascs \in {<<>>, <<PyBool(TRUE)>>, <<PyBool(TRUE), PyBool(FALSE)>>} :
        Step("order", self, NoKey,
             <<PyInt(Len(colIdxs)), PyInt(Len(ascs))>> \o colIdxs \o ascs,
             Order(heap, self, colIdxs, ascs, PyBool(FALSE)), TRUE)

AsTypeCall ==
    /\ CanCall(TRUE)
    /\ \E self \in Receivers, dtype \in {PyNone, PyStr("matrix"), PyStr("frame"), PyStr("scalar"), PyStr("tensor")}, vtype \in {PyNone, PyStr("f32")} :
        Step("asType", self, NoKey, <<dtype, vtype>>,
             AsType(heap, self, dtype, vtype), TRUE)

WriteCall ==
    /\ CanCall(TRUE)
    /\ \E self \in Receivers :
        Step("write", self, NoKey, <<PyStr("out.csv")>>, Write(heap, self, "out.csv"), TRUE)

PrintCall ==
    /\ CanCall(TRUE)
    /\ \E self \in Receivers :
        Step("print", self, NoKey, <<>>, PrintNode(heap, self), TRUE)

GetItemCall ==
    /\ CanCall(TRUE)
    /\ \E self \in Receivers, key \in Keys :
        Step("__getitem__", self, key, <<>>, GetItem(heap, self, key), TRUE)

SetItemCall ==
    \E broad \in BOOLEAN :
        /\ CanCall(broad)
        /\ \E self \in Receivers :
            \E copied \in {DeepCopy(heap, self, order) :
                                order \in (IF heap.order = NoOrder THEN AttributeOrders
                                                                   ELSE {heap.order})} :
                \E value \in Operands, key \in (IF broad THEN Keys ELSE CoreKeys) :
                    Step("__setitem__", self, key, <<value>>,
                         SetItem(heap, copied, self, key, value), broad)

\* the files after a call that wrote r.wrote, and the record of the call
Wrote(record, r) ==
    /\ files' = {f \in files : f.path \notin {g.path : g \in r.wrote}} \cup r.wrote
    /\ last' = [record EXCEPT !.err = r.err, !.wrote = r.wrote]

\* M.compute(type=..): the last call of its run
ComputeCall ==
    /\ CanCall(FALSE)
    /\ \E self \in Receivers, type \in {"shared memory", "files"} :
       \E pick \in (IF Compute(heap, self, "").open THEN FormatOutcomes ELSE {""}) :
       \E r \in {Compute(heap, self, pick)} :
        /\ r.fits
        /\ Wrote([NoCall EXCEPT !.m = "compute", !.self = self, !.args = <<PyStr(type)>>,
                                !.ret = 0, !.line = Join(r.lines, "\n"), !.pick = pick], r)
        /\ calls' = calls + 1
        /\ done' = TRUE
        /\ UNCHANGED <<heap, handles>>

Next ==
    \/ BinaryCall
    \/ ReflectedCall
    \/ UnaryCall
    \/ ScalarCall
    \/ TernaryCall
    \/ AggregateCall
    \/ IdxAggregateCall
    \/ BinCall
    \/ OrderCall
    \/ AsTypeCall
    \/ WriteCall
    \/ PrintCall
    \/ GetItemCall
    \/ SetItemCall
    \/ ComputeCall

Spec == Init /\ [][Next]_vars

(***************************************************************************)
(* Runs that continue a program in which a handle was written and read     *)
(* again:  B = A + 2; V = A + 2; A[0, 0] = V; Z = V + A; X = B + A,  and   *)
(* runs from a source matrix over an array that cannot be copied.  The     *)
(* calls that follow are additions and writes of a literal.                *)
(***************************************************************************)
\* no __dict__ is shared before the first write of a program, so its deep
\* copy is the same under every attribute order
WrittenHeap ==
    LET key == KTuple(<<KComp(PyInt(0)), KComp(PyInt(0))>>)
        B == Binary(SourceHeap, 1, "__add__", PyInt(2))
        V == Binary(B.h, 1, "__add__", PyInt(2))
        written == SetItem(V.h, DeepCopy(V.h, 1, [first |-> "unnamed", rest |-> "before"]),
                           1, key, PyNode(V.ret))
        Z == Binary(written.h, V.ret, "__add__", PyNode(1))
        X == Binary(Z.h, B.ret, "__add__", PyNode(1))
    IN  [heap |-> X.h, handles |-> {1, B.ret, V.ret, Z.ret, X.ret}]

InitViews ==
    /\ \E start \in {WrittenHeap,
                  [heap |-> MatrixInit(EmptyHeap, PyStr("readMatrix"), <<>>,
                                       Holding(Array("O", 8), "uncopyable"),
                                       FALSE, FALSE, FALSE).h,
                   handles |-> {1}]} :
            heap = start.heap /\ handles = start.handles
    /\ calls = 0
    /\ done = FALSE
    /\ last = NoCall
    /\ files = {}

ViewBinaryCall ==
    /\ calls < MaxViewCalls
    /\ \E self \in Receivers, other \in Operands :
        StepWithin(MaxViewObj, "__add__", self, NoKey, <<other>>,
                   Binary(heap, self, "__add__", other), FALSE)

ViewSetItemCall ==
    /\ calls < MaxViewCalls
    /\ \E self \in Receivers, key \in CoreKeys :
        \E copied \in {DeepCopy(heap, self, order) :
                            order \in (IF heap.order = NoOrder THEN AttributeOrders
                                                               ELSE {heap.order})} :
            StepWithin(MaxViewObj, "__setitem__", self, key, <<PyInt(2)>>,
                       SetItem(heap, copied, self, key, PyInt(2)), FALSE)

NextViews ==
    \/ ViewBinaryCall
    \/ ViewSetItemCall

SpecViews == InitViews /\ [][NextViews]_vars

(***************************************************************************)
(* Notions the claims use.                                                 *)
(***************************************************************************)
\* nodes of the DAG: the handles and what they reach through input references
RECURSIVE InputClosure(_, _)
InputClosure(h, S) ==
    LET S2 == S \cup UNION {InputNodes(h, x) : x \in S}
    IN  IF S2 = S THEN S ELSE InputClosure(h, S2)

Live(h, hs) == InputClosure(h, hs)

\* no node is reachable from itself through input references
Acyclic(h) ==
    \A o \in Objects(h) : o \notin InputClosure(h, InputNodes(h, o))

\* no indexing write has been made
NoWrites(h) == \A d \in 1..h.ndict : ~h.dicts[d].left_brackets

\* node b of heap hb shows what node a of heap ha shows, compared k levels deep
RECURSIVE SameView(_, _, _, _, _)
SameView(ha, a, hb, b, k) ==
    LET da == Attr(ha, a)
        db == Attr(hb, b)
    IN  /\ ha.cls[a] = hb.cls[b]
        /\ SeesInputs(ha, a) /\ SeesRest(ha, a)
        /\ SeesInputs(hb, b) /\ SeesRest(hb, b)
        /\ da.operation = db.operation
        /\ da.output_type = db.output_type
        /\ da.brackets = db.brackets
        /\ da.left_brackets = db.left_brackets
        /\ da.np_array = db.np_array
        /\ da.copy = db.copy
        /\ Len(da.unnamed) = Len(db.unnamed)
        /\ \A i \in DOMAIN da.unnamed :
              IF IsNode(da.unnamed[i])
              THEN /\ IsNode(db.unnamed[i])
                   /\ k = 0 \/ SameView(ha, da.unnamed[i].n, hb, db.unnamed[i].n, k - 1)
              ELSE da.unnamed[i] = db.unnamed[i]

\* the step just taken was a call of a method in M
Called(M) == calls' = calls + 1 /\ last'.m \in M

\* the fields of an existing node that an operator call must leave alone
Untouched(o) ==
    LET before == Attr(heap, o)
        after == Attr(heap', o)
    IN  /\ after.operation = before.operation
        /\ after.unnamed = before.unnamed
        /\ after.named = before.named
        /\ after.output_type = before.output_type
        /\ after.brackets = before.brackets
        /\ after.left_brackets = before.left_brackets

(***************************************************************************)
(* C1.  In-place indexed assignment preserves earlier views: after a       *)
(* successful A[r,c] = v every node of the DAG that had A as an input has  *)
(* the shadow predecessor, a node that did not exist, in A's place, and    *)
(* the shadow shows what A showed before the call; a node built from the   *)
(* handle A after a write has A, which is the write node, as its input.    *)
(* This holds for every consumer and after any number of writes.  The      *)
(* order in which OperationNode.__init__ assigns the attributes is not     *)
(* fixed by the file, so a write made before any copy depended on the      *)
(* order is held against the claim only when no order preserves the views. *)
(***************************************************************************)
\* the input places of the nodes of the DAG, A itself left out, that hold A
ConsumerPlaces(h, hs, A) ==
    {p \in (Live(h, hs) \ {A}) \X (1..4) :
        /\ SeesInputs(h, p[1])
        /\ p[2] \in DOMAIN Attr(h, p[1]).unnamed
        /\ Attr(h, p[1]).unnamed[p[2]] = PyNode(A)}

\* the heap and the shadow after a write on A made in heap h: every place
\* that held A holds the shadow, a node that did not exist, and the shadow
\* shows what A showed
ViewsKept(h, hs, A, after) ==
    \A p \in ConsumerPlaces(h, hs, A) :
        /\ after.shadow \notin Objects(h)
        /\ Attr(after.h, p[1]).unnamed[p[2]] = PyNode(after.shadow)
        /\ SameView(h, A, after.h, after.shadow, ViewDepth)

C1_ViewsPreserved ==
    [][/\ (Called({"__setitem__"}) /\ last'.err = "" /\ heap.order = NoOrder) =>
            \E order \in AttributeOrders :
                ViewsKept(heap, handles, last'.self,
                          SetItem(heap, DeepCopy(heap, last'.self, order),
                                  last'.self, last'.key, last'.args[1]))
       /\ (calls' = calls + 1 /\ last'.ret # 0) =>
            \A A \in handles :
                (Attr(heap, A).left_brackets /\ A \in {last'.self} \cup NodesIn(last'.args)) =>
                    /\ A \in InputNodes(heap', last'.ret)
                    /\ Untouched(A)
      ]_vars

\* a second write on a handle, the first call that continues the program:
\* the two consumers built after the first write read the shadow, and every
\* node the shadow reaches holds all its attributes
C1_Witness ==
    /\ calls = 1
    /\ last.m = "__setitem__"
    /\ last.err = ""
    /\ Attr(heap, last.shadow).left_brackets
    /\ \A x \in InputClosure(heap, {last.shadow}) : SeesInputs(heap, x) /\ SeesRest(heap, x)
    /\ Cardinality({c \in handles \ {last.self} : last.shadow \in InputNodes(heap, c)}) >= 2

(***************************************************************************)
(* C2.  Every entry X of a node N's consumer_list has N among its inputs.  *)
(***************************************************************************)
C2_ConsumersConsistent ==
    \A N \in Objects(heap) :
        \A X \in Consumers(heap, N) :
            N \in InputNodes(heap, X) \/ N \in NodesIn(Attr(heap, X).named)

(***************************************************************************)
(* C3.  As long as only non-mutating operator calls have been made, no     *)
(* node is reachable from itself through input references, so the nodes    *)
(* can be ordered with every node after its inputs.                        *)
(***************************************************************************)
C3_AcyclicWithoutWrites == NoWrites(heap) => Acyclic(heap)

\* MaxCalls non-mutating calls, the last on a node that reads a derived node
C3_Witness ==
    /\ NoWrites(heap)
    /\ calls = MaxCalls
    /\ last.ret # 0
    /\ \E o \in InputNodes(heap, last.ret) : InputNodes(heap, o) # {}

(***************************************************************************)
(* C4.  A call of any method but the indexing write returns, when it       *)
(* returns a node, a node that did not exist before, and leaves the        *)
(* operation, the inputs, the output type and the bracket flags of every   *)
(* existing node as they were.  A successful indexing write does change    *)
(* the operation or the inputs of its receiver.                            *)
(***************************************************************************)
C4_OperandsNotMutated ==
    [][/\ (calls' = calls + 1 /\ last'.m # "__setitem__") =>
            /\ last'.ret # 0 => last'.ret \notin Objects(heap)
            /\ \A o \in Objects(heap) : Untouched(o)
       /\ (Called({"__setitem__"}) /\ last'.err = "") => ~Untouched(last'.self)
      ]_vars

\* a binary call whose operand is a node that already had a consumer
C4_Witness ==
    /\ last.m \in BinaryMethods
    /\ last.ret # 0
    /\ IsNode(last.args[1])
    /\ Cardinality(Consumers(heap, last.args[1].n)) > 1

(***************************************************************************)
(* C5.  Each of sum, aggMin, aggMax, mean, var, stddev, idxMin and idxMax  *)
(* returns a Scalar-kind node with inputs [receiver] when the axis is      *)
(* omitted and a Matrix-kind node with inputs [receiver, axis] when it is  *)
(* given, tagged with the aggregate's name.  An axis left out and the axis *)
(* None both count as omitted.                                             *)
(***************************************************************************)
C5_AxisAggregates ==
    last.m \in AxisAggregates \cup IdxAggregates =>
        /\ last.ret # 0
        /\ Attr(heap, last.ret).operation = PyStr(last.m)
        /\ IF last.args[1] \in {NotPassed, PyNone}
           THEN /\ heap.cls[last.ret] = "Scalar"
                /\ Attr(heap, last.ret).output_type = "SCALAR"
                /\ Attr(heap, last.ret).unnamed = <<PyNode(last.self)>>
           ELSE /\ heap.cls[last.ret] = "Matrix"
                /\ Attr(heap, last.ret).output_type = "MATRIX"
                /\ Attr(heap, last.ret).unnamed = <<PyNode(last.self), last.args[1]>>

(***************************************************************************)
(* C6.  M[k] raises a type error and creates no node when k is not a pair  *)
(* or a component of k is not an integer, a range or a Matrix node.        *)
(***************************************************************************)
ReadComponentOk(c) ==
    \/ c.t \in {"int", "bool", "slice"}
    \/ c.t = "node" /\ heap.cls[c.n] = "Matrix"

ReadKeyOk(key) ==
    /\ key.tuple
    /\ Len(key.comps) = 2
    /\ \A i \in 1..2 : ReadComponentOk(key.comps[i])

C6_ReadRejectsBadKeys ==
    (last.m = "__getitem__" /\ ~ReadKeyOk(last.key)) =>
        /\ last.err = "TypeError"
        /\ last.ret = 0

(***************************************************************************)
(* C7.  M[k] = v raises a type error when k is not a pair or a component   *)
(* of k is not an integer or a range; the heap is then as it was: nothing  *)
(* of M or of its consumers has changed and no shadow exists.              *)
(***************************************************************************)
WriteKeyOk(key) ==
    /\ key.tuple
    /\ Len(key.comps) = 2
    /\ \A i \in 1..2 : key.comps[i].t \in {"int", "bool", "slice"}

C7_WriteRejectsBadKeys ==
    [][(Called({"__setitem__"}) /\ ~WriteKeyOk(last'.key)) =>
            /\ last'.err = "TypeError"
            /\ last'.shadow = 0
            /\ heap' = heap
            /\ handles' = handles
      ]_vars

\* a write through a node-valued index on a receiver that has a consumer
C7_Witness ==
    /\ last.m = "__setitem__"
    /\ last.err = "TypeError"
    /\ last.key.tuple
    /\ Len(last.key.comps) = 2
    /\ last.key.comps[1].t = "node"
    /\ Consumers(heap, last.self) # {}

(***************************************************************************)
(* C8.  idxMin/idxMax without an axis, bin with exactly one of Min and     *)
(* Max, order with colIdxs and ascs of different lengths, and asType with  *)
(* neither dtype nor vtype or with a dtype other than matrix, frame and    *)
(* scalar, raise an error and leave the heap and the handles as they were: *)
(* a TypeError when idxMin/idxMax is called with the axis left out, a      *)
(* RuntimeError in every other case, the axis None included.               *)
(***************************************************************************)
UsageError(c) ==
    \/ c.m \in IdxAggregates /\ c.args[1] \in {NotPassed, PyNone}
    \/ c.m = "bin" /\ ((c.args[2] = PyNone) # (c.args[3] = PyNone))
    \/ c.m = "order" /\ c.args[1] # c.args[2]
    \/ c.m = "asType" /\ c.args[1] = PyNone /\ c.args[2] = PyNone
    \/ c.m = "asType" /\ c.args[1] # PyNone
            /\ c.args[1].s \notin {"matrix", "frame", "scalar"}

C8_UsageErrorsBuildNothing ==
    [][(calls' = calls + 1 /\ UsageError(last')) =>
            /\ last'.err = IF last'.m \in IdxAggregates /\ last'.args[1] = NotPassed
                           THEN "TypeError" ELSE "RuntimeError"
            /\ last'.ret = 0
            /\ heap' = heap
            /\ handles' = handles
      ]_vars

\* idxMin with the axis left out on a receiver that has a consumer
C8_Witness ==
    /\ last.m = "idxMin"
    /\ last.args[1] = NotPassed
    /\ last.err = "TypeError"
    /\ Consumers(heap, last.self) # {}

(***************************************************************************)
(* C9.  M[r, c] with valid components returns a new Matrix-kind node with  *)
(* operation None, is_brackets true and inputs [M, rowExpr, colExpr]: an   *)
(* integer or a node is passed through, a range becomes start ':' stop     *)
(* with an omitted bound empty.                                            *)
(***************************************************************************)
ExpectedRangeText(c) ==
    CASE c = KSlice(<<1>>, <<3>>) -> "1:3"
      [] c = KSlice(<<>>, <<>>) -> ":"
      [] c = KSlice(<<2>>, <<>>) -> "2:"
      [] c = KSlice(<<>>, <<12>>) -> ":12"

ExpectedIndexExpr(c) ==
    IF c.t = "slice" THEN PyStr(ExpectedRangeText(c)) ELSE KValue(c)

C9_ReadBuildsBracketNode ==
    (last.m = "__getitem__" /\ ReadKeyOk(last.key)) =>
        /\ last.err = ""
        /\ last.ret = heap.nobj
        /\ heap.cls[last.ret] = "Matrix"
        /\ Attr(heap, last.ret).output_type = "MATRIX"
        /\ Attr(heap, last.ret).operation = PyNone
        /\ Attr(heap, last.ret).brackets
        /\ ~Attr(heap, last.ret).left_brackets
        /\ Attr(heap, last.ret).unnamed =
              <<PyNode(last.self), ExpectedIndexExpr(last.key.comps[1]),
                ExpectedIndexExpr(last.key.comps[2])>>

\* M[:, 2:]
C9_Witness ==
    /\ last.m = "__getitem__"
    /\ last.key = KTuple(<<KSlice(<<>>, <<>>), KSlice(<<2>>, <<>>)>>)
    /\ last.ret # 0
    /\ Attr(heap, last.ret).unnamed = <<PyNode(last.self), PyStr(":"), PyStr("2:")>>

(***************************************************************************)
(* The staging specification: a source matrix over an array of any dtype   *)
(* (read from files, handed over through shared memory, or without local   *)
(* data), alone, with an alias of it or with a node derived from it;       *)
(* lines are emitted for the nodes under the names the emitter assigns.    *)
(***************************************************************************)
\* arrays of every dtype kind; a string dtype is at least one item wide
ArrayDTypes ==
    {Array("f", 2), Array("f", 4), Array("f", 8), Array("i", 1), Array("i", 2),
     Array("i", 4), Array("i", 8), Array("u", 1), Array("u", 2), Array("u", 4),
     Array("u", 8), Array("b", 1), Array("c", 16), Array("S", 1), Array("S", 5),
     Array("U", 4), Array("U", 12), Array("O", 8), Array("M", 8),
     [Array("f", 4) EXCEPT !.swapped = TRUE], [Array("i", 8) EXCEPT !.swapped = TRUE], Shaped(Array("f", 8), 1),
     Shaped(Array("U", 4), 1), Shaped(Array("f", 8), 0), Shaped(Array("U", 4), 0),
     Shaped(Array("f", 8), 3), Shaped(Array("U", 4), 3),
     Holding(Array("O", 8), "opaque"), Holding(Array("O", 8), "uncopyable"),
     Holding(Array("O", 8), "circular"), Holding(Array("O", 8), "surrogate"),
     Holding(Array("O", 8), "bytes"), Holding(Array("U", 1), "surrogate"),
     Holding(Array("S", 1), "none"), Holding(Array("U", 4), "none"),
     Holding(Array("f", 8), "none"), Holding(Array("M", 8), "none"), [NoArray EXCEPT !.present = TRUE]}


\* the text the emitter passes for each input: the variable of a node, the
\* text of a string literal, the digits of an int
InputVars(h, self) ==
    [i \in DOMAIN Attr(h, self).unnamed |->
        LET v == Attr(h, self).unnamed[i]
        IN  IF IsNode(v) THEN <<"a1", "a2", "a3", "a4">>[i] ELSE Literal(v)]

\* file-name literals of a readMatrix source
FileLiterals ==
    {"\"data.csv\"", "\"{TMP_PATH}/{file_name}.csv\"", "\"{file_name}.csv\"",
     "\"{{x}}.csv\"", "\"{0}.csv\"", "\"{name}.csv\"", "\"{.csv\"", "\"}.csv\"",
     "\"{file_name.upper}.csv\"", "\"{file_name.__class__}.csv\"",
     "\"{file_name.__class__.__name__}.csv\"", "\"{file_name:>99999999}.csv\"",
     "\"{file_name.upper!r:.9}.csv\""}

StageSources ==
    {MatrixInit(EmptyHeap, PyStr(op), <<>>, a, FALSE, FALSE, FALSE).h :
        op \in {"readMatrix", "receiveFromNumpy"}, a \in ArrayDTypes}
    \cup {MatrixInit(EmptyHeap, PyStr("readMatrix"), <<PyStr(f)>>, a, FALSE, FALSE, FALSE).h :
            f \in FileLiterals, a \in {NoArray, Array("f", 8)}}

StageHeaps ==
    StageSources
    \cup {MatrixInit(h, PyNone, <<PyNode(1)>>, NoArray, FALSE, FALSE, TRUE).h :
            h \in StageSources}
    \cup {Unary(h, 1, "t").h : h \in StageSources}
    \cup {MatrixInit(h, PyStr("readMatrix"), <<PyNode(1)>>, Array("U", 4), FALSE, FALSE, TRUE).h :
            h \in StageSources}
    \cup {Ternary(SourceHeap, 1, "replace", PyStr("\"{\""), PyStr("\"}\"")).h,
          MatrixInit(SourceHeap, PyNone, <<>>, NoArray, FALSE, FALSE, TRUE).h}

InitStage ==
    /\ heap \in StageHeaps
    /\ handles = Objects(heap)
    /\ calls = 0
    /\ done = FALSE
    /\ last = NoCall
    /\ files = {}

CodeLineCall ==
    \E self \in handles, var_name \in {"V1", "V2"} :
       \E pick \in (IF CodeLine(heap, self, var_name, InputVars(heap, self)).may = {}
                    THEN {""}
                    ELSE CodeLine(heap, self, var_name, InputVars(heap, self)).may) :
       \E r \in {Resolve(CodeLine(heap, self, var_name, InputVars(heap, self)), pick)} :
        /\ Wrote([NoCall EXCEPT !.m = "code_line", !.self = self,
                                !.args = <<PyStr(var_name)>>, !.ret = 0, !.line = r.line,
                                !.pick = pick], r)
        /\ UNCHANGED <<heap, handles, calls, done>>

\* arrays handed to a constructor while lines are being emitted

\* Matrix(ctx, 'readMatrix', local_data=a): a second source is constructed
ConstructCall ==
    /\ heap.nobj <= MaxConstruct
    /\ \E a \in {Array("f", 8), Array("S", 1)} :
        LET r == MatrixInit(heap, PyStr("readMatrix"), <<>>, a, FALSE, FALSE, FALSE)
        IN  /\ heap' = r.h
            /\ handles' = handles \cup {r.ret}
            /\ last' = [NoCall EXCEPT !.m = "__init__", !.ret = r.ret]
            /\ UNCHANGED <<calls, done, files>>

NextStage ==
    \/ CodeLineCall
    \/ ConstructCall
    \/ ComputeCall

SpecStage == InitStage /\ [][NextStage]_vars

(***************************************************************************)
(* C10.  The valueType written to a metadata sidecar is f32, f64, si16,    *)
(* si32, si64, ui8, ui16, ui32, ui64 for the dtypes float32 .. uint64,     *)
(* str for every string-kind dtype of any width, and object for every      *)
(* other dtype, for the .csv.meta and the .json.meta sidecar alike.        *)
(***************************************************************************)
ExpectedValueType(a) ==
    CASE a.kind = "f" /\ a.size = 4 -> "f32"
      [] a.kind = "f" /\ a.size = 8 -> "f64"
      [] a.kind = "i" /\ a.size = 2 -> "si16"
      [] a.kind = "i" /\ a.size = 4 -> "si32"
      [] a.kind = "i" /\ a.size = 8 -> "si64"
      [] a.kind = "u" /\ a.size = 1 -> "ui8"
      [] a.kind = "u" /\ a.size = 2 -> "ui16"
      [] a.kind = "u" /\ a.size = 4 -> "ui32"
      [] a.kind = "u" /\ a.size = 8 -> "ui64"
      [] a.kind \in {"S", "U"} -> "str"
      [] OTHER -> "object"

C10_ValueTypeByDType ==
    last.m = "code_line" =>
        \A f \in last.wrote :
            (f.meta /\ f.complete) =>
                f.valueType = ExpectedValueType(Attr(heap, last.self).np_array)

(***************************************************************************)
(* C11.  The post-state of a successful A[r,c] = v.                        *)
(***************************************************************************)
\* what a write node records of its value operand: a literal, or the
\* operation of the node written
ValueShown(h, v) == IF IsNode(v) THEN Attr(h, v.n).operation ELSE v

\* the writes recorded along the chain of write nodes from o, newest first
RECURSIVE WriteChain(_, _, _)
WriteChain(h, o, k) ==
    LET d == Attr(h, o)
    IN  IF k = 0 \/ ~SeesInputs(h, o) \/ ~SeesRest(h, o) \/ ~d.left_brackets THEN <<>>
        ELSE <<<<ValueShown(h, d.unnamed[2]), d.unnamed[3], d.unnamed[4]>>>>
                \o WriteChain(h, d.unnamed[1].n, k - 1)

\* the handle after a successful write: the same object, now the write node
\* over a shadow that did not exist
WriteNodeState(A, shadow) ==
    /\ A \in Objects(heap)
    /\ shadow \notin Objects(heap)
    /\ shadow \in Objects(heap')
    /\ Attr(heap', A).operation = PyNone
    /\ Attr(heap', A).left_brackets
    /\ ~Attr(heap', A).brackets
    /\ Attr(heap', A).unnamed =
          <<PyNode(shadow), last'.args[1], ExpectedIndexExpr(last'.key.comps[1]),
            ExpectedIndexExpr(last'.key.comps[2])>>
    /\ WriteChain(heap', A, MaxCalls + 1) =
          <<<<ValueShown(heap', last'.args[1]), ExpectedIndexExpr(last'.key.comps[1]),
              ExpectedIndexExpr(last'.key.comps[2])>>>>
            \o WriteChain(heap, A, MaxCalls)

\* C11, the part the code keeps: after every successful A[r,c] = v the
\* handle A is the same object, with operation None, is_left_brackets true
\* and inputs [shadow, v, rowExpr, colExpr]; the shadow is a new node with
\* the operation, flags and payload A had, whose inputs are A's literal
\* inputs and, in the place of each input node of A, a node that did not
\* exist; the chain of write nodes from A lists the writes newest first.
C11_WritePostState ==
    [][(Called({"__setitem__"}) /\ last'.err = "") =>
            /\ WriteNodeState(last'.self, last'.shadow)
            /\ SameView(heap, last'.self, heap', last'.shadow, 0)
            /\ \A i \in DOMAIN Attr(heap, last'.self).unnamed :
                  IsNode(Attr(heap, last'.self).unnamed[i]) =>
                      Attr(heap', last'.shadow).unnamed[i].n \notin Objects(heap)
      ]_vars

\* a second write on a handle that was derived from the source matrix
C11_Witness ==
    /\ last.m = "__setitem__"
    /\ last.err = ""
    /\ Len(WriteChain(heap, last.self, MaxCalls + 1)) = 2
    /\ WriteChain(heap, last.self, MaxCalls + 1)[1] # WriteChain(heap, last.self, MaxCalls + 1)[2]
    /\ InputNodes(heap, Attr(heap, Attr(heap, last.self).unnamed[1].n).unnamed[1].n) # {}

\* C11: after every successful A[r,c] = v the handle A is the write node over
\* a new shadow, the chain of write nodes lists the writes in order, and the
\* shadow's operation, inputs, flags and payload are those A had before the
\* call
C11_ShadowHasInputsOfA ==
    [][(Called({"__setitem__"}) /\ last'.err = "") =>
            /\ WriteNodeState(last'.self, last'.shadow)
            /\ Attr(heap', last'.shadow).operation = Attr(heap, last'.self).operation
            /\ Attr(heap', last'.shadow).brackets = Attr(heap, last'.self).brackets
            /\ Attr(heap', last'.shadow).left_brackets = Attr(heap, last'.self).left_brackets
            /\ Attr(heap', last'.shadow).np_array = Attr(heap, last'.self).np_array
            /\ Attr(heap', last'.shadow).unnamed = Attr(heap, last'.self).unnamed
      ]_vars

(***************************************************************************)
(* C12.  Local data is staged only when a line is emitted: constructing a  *)
(* node with local data writes no file; the line of a readMatrix node with *)
(* local data, emitted under the name v, writes exactly <tmp>/v.json and   *)
(* <tmp>/v.json.meta for a string, object or unicode array and exactly     *)
(* <tmp>/v.csv and <tmp>/v.csv.meta otherwise; the line of any other node  *)
(* (no local data, another operation, or the copy flag, whose line is      *)
(* v=<firstInputVar>;) writes no file.                                     *)
(***************************************************************************)
PathsOf(F) == {f.path : f \in F}

ExpectedStagedPaths(d, v) ==
    IF d.copy \/ ~d.np_array.present \/ d.operation # PyStr("readMatrix")
    THEN {}
    ELSE IF d.np_array.kind \in {"S", "U", "O"}
         THEN {"<tmp>/" \o v \o ".json", "<tmp>/" \o v \o ".json.meta"}
         ELSE {"<tmp>/" \o v \o ".csv", "<tmp>/" \o v \o ".csv.meta"}

\* the files of one compute: those of every node it emits, under the name
\* the emitter gives the node
ExpectedComputePaths(h, self, pick) ==
    UNION {ExpectedStagedPaths(Attr(h, o), Compute(h, self, pick).name[o]) :
            o \in {x \in Objects(h) : Compute(h, self, pick).name[x] # ""}}

C12_StagingOnlyAtEmission ==
    [][/\ heap' # heap => files' = files
       /\ (heap' = heap /\ last'.m = "compute") =>
            /\ PathsOf(last'.wrote) = ExpectedComputePaths(heap, last'.self, last'.pick)
            /\ PathsOf(files') = PathsOf(files) \cup PathsOf(last'.wrote)
       /\ (heap' = heap /\ last'.m = "code_line") =>
            LET d == Attr(heap, last'.self)
                v == last'.args[1].s
            IN  /\ PathsOf(last'.wrote) = ExpectedStagedPaths(d, v)
                /\ PathsOf(files') = PathsOf(files) \cup ExpectedStagedPaths(d, v)
                /\ Cardinality(last'.wrote) = Cardinality(ExpectedStagedPaths(d, v))
                /\ \A f \in last'.wrote :
                      f.meta <=> f.path \in {"<tmp>/" \o v \o ".json.meta",
                                             "<tmp>/" \o v \o ".csv.meta"}
                /\ d.copy => last'.line = v \o "=a1;"
      ]_vars

\* the same for the emissions that raise no exception
C12_StagingWhenEmitted ==
    [][/\ heap' # heap => files' = files
       /\ (heap' = heap /\ last'.m = "code_line" /\ last'.err = "") =>
            /\ PathsOf(last'.wrote) =
                  ExpectedStagedPaths(Attr(heap, last'.self), last'.args[1].s)
            /\ \A f \in last'.wrote : f.complete
       /\ (heap' = heap /\ last'.m = "compute" /\ last'.err = "") =>
            /\ PathsOf(last'.wrote) = ExpectedComputePaths(heap, last'.self, last'.pick)
            /\ \A f \in last'.wrote : f.complete
      ]_vars

(***************************************************************************)
(* C13.  After any sequence of operator calls, indexing writes included    *)
(* and whatever the value written (the handle itself, a node built from    *)
(* it), no node of the DAG is reachable from itself through input          *)
(* references.                                                             *)
(***************************************************************************)
C13_AcyclicAfterWrites ==
    \A o \in Live(heap, handles) : o \notin InputClosure(heap, InputNodes(heap, o))

\* the same, leaving out the runs in which a handle was written into itself
C13_AcyclicUnlessSelfWritten ==
    (\A o \in Objects(heap) :
        (SeesInputs(heap, o) /\ Attr(heap, o).left_brackets) =>
            Attr(heap, o).unnamed[2] # PyNode(o))
    => C13_AcyclicAfterWrites

(***************************************************************************)
(* C14.  bin(numBins, Min, Max) returns a Matrix node tagged bin whose     *)
(* inputs are [receiver, numBins, Min, Max] whenever Min and Max are both  *)
(* supplied, 0 and False included, and [receiver, numBins] when both are   *)
(* omitted.                                                                *)
(***************************************************************************)
C14_BinPassesBounds ==
    (last.m = "bin" /\ ((last.args[2] = PyNone) <=> (last.args[3] = PyNone))) =>
        /\ last.ret # 0
        /\ heap.cls[last.ret] = "Matrix"
        /\ Attr(heap, last.ret).operation = PyStr("bin")
        /\ Attr(heap, last.ret).unnamed =
              IF last.args[2] = PyNone
              THEN <<PyNode(last.self), last.args[1]>>
              ELSE <<PyNode(last.self), last.args[1], last.args[2], last.args[3]>>

\* the same for bounds that are both omitted or both truthy
C14_BinPassesTruthyBounds ==
    (last.m = "bin" /\ Truthy(last.args[2]) = Truthy(last.args[3])
                    /\ (last.args[2] = PyNone <=> last.args[3] = PyNone)
                    /\ (Truthy(last.args[2]) \/ last.args[2] = PyNone)) =>
        C14_BinPassesBounds

====
